---- MODULE Spec2Model ----
(***************************************************************************)
(* A model of the audio generation pipeline of hypno-ai:                   *)
(*   app/audio/audio.py        AudioGenerator (segmenter, worker pool,     *)
(*                             monitor, assembler, orchestrator)           *)
(*   app/tts_model/model.py    get_tts_model / model_status                *)
(*   app/tasks/base_task_manager.py  cancel_task and the progress callback *)
(*                                                                         *)
(* A text is a sequence of one-character strings.  The queues are FIFO     *)
(* sequences, each worker thread is a small program counter machine, and   *)
(* the backend (TTS) is an environment whose call outcomes are chosen      *)
(* nondeterministically.                                                   *)
(***************************************************************************)
EXTENDS Naturals, Integers, Sequences, FiniteSets, TLC

(***************************************************************************)
(* Bounds of the model.                                                    *)
(***************************************************************************)
\* Longest input text of a pipeline run, counted in lexemes.
MaxLex == 3
\* Longest input text of the segmenter-only specification, in lexemes.
MaxSegLex == 4
\* Largest thread budget (num_threads) a run is started with.
MaxThreads == 2
\* Longest result list handed to _combine_audio_segments on its own.
MaxResults == 2
\* Longest audio of one segment in such a list, in milliseconds.
MaxDuration == 2
MaxFairLex == 2         \* lexemes of a text in the runs under fairness
MaxDownloads == 3       \* download threads that are ever started
MaxNameLen == 2          \* characters of a routine name
MaxSaves == 3            \* task runs that save a routine
MaxManagerTasks == 2     \* tasks started on one BaseTaskManager
MaxTasks == 2           \* task files in TASKS_FOLDER

(***************************************************************************)
(* Strings: the operations of Python's str that _prepare_segments uses.    *)
(***************************************************************************)
Whitespace == {" ", "\n"}

\* s[a..b] as a sequence (empty when a > b).
Slice(s, a, b) == [i \in 1..(b - a + 1) |-> s[a + i - 1]]

\* str.startswith
StartsWith(s, p) ==
    /\ Len(s) >= Len(p)
    /\ \A i \in 1..Len(p) : s[i] = p[i]

\* Position of the first occurrence of sep in s at or after position from,
\* 0 when there is none (str.find, 1-based).
RECURSIVE FindFrom(_, _, _)
FindFrom(s, sep, from) ==
    IF from + Len(sep) - 1 > Len(s) THEN 0
    ELSE IF \A i \in 1..Len(sep) : s[from + i - 1] = sep[i] THEN from
    ELSE FindFrom(s, sep, from + 1)

\* sub in s
Contains(s, sub) == FindFrom(s, sub, 1) # 0

\* str.split(sep): the pieces between the non-overlapping occurrences of
\* sep, scanned left to right; always at least one piece.
RECURSIVE Split(_, _)
Split(s, sep) ==
    LET p == FindFrom(s, sep, 1)
    IN  IF p = 0 THEN <<s>>
        ELSE <<Slice(s, 1, p - 1)>> \o Split(Slice(s, p + Len(sep), Len(s)), sep)

\* str.lstrip / str.rstrip / str.strip on whitespace.
RECURSIVE LStrip(_)
LStrip(s) ==
    IF s # <<>> /\ Head(s) \in Whitespace THEN LStrip(Tail(s)) ELSE s

RECURSIVE RStrip(_)
RStrip(s) ==
    IF s # <<>> /\ s[Len(s)] \in Whitespace THEN RStrip(Slice(s, 1, Len(s) - 1)) ELSE s

Strip(s) == RStrip(LStrip(s))

(***************************************************************************)
(* Input texts: concatenations of lexemes.                                 *)
(***************************************************************************)
BreakMarker == <<"[", "b", "r", "e", "a", "k", "]">>
EllipsisMarker == <<".", ".", ".">>
HeadingMarker == <<"#", "#", "#">>
Newline == <<"\n">>

\* The lexemes of a pipeline run's text: a word, a line break (a pause
\* segment) and the heading prefix.  The pool treats every pause kind alike.
RunLexemes == {<<"a">>, Newline, HeadingMarker}
\* The lexemes of the segmenter-only specification: every marker, blanks and
\* single characters of the markers.
SegLexemes == {<<"a">>, Newline, EllipsisMarker, HeadingMarker, BreakMarker,
               <<" ">>, <<".">>, <<"#">>}

RECURSIVE TextsUpTo(_, _)
TextsUpTo(lex, k) ==
    IF k = 0 THEN {<<>>}
    ELSE LET shorter == TextsUpTo(lex, k - 1)
         IN  shorter \cup {t \o l : t \in shorter, l \in lex}

(***************************************************************************)
(* _prepare_segments (audio.py 198-269).  A segment is                     *)
(* (segment_text, (segment_index, segment_type)); the loops carry the      *)
(* list built so far and the running segment_index.                        *)
(***************************************************************************)
TypeNormal == 0
TypeHeading == 1
TypeLineBreak == 2
TypeEllipsisPart == 3
TypeEllipsisPause == 4
TypeBreak == 5

\* segments.append((text, (segment_index, type))); segment_index += 1
AppendSegment(st, txt, type) ==
    [segs |-> Append(st.segs, [text |-> txt, idx |-> st.idx, type |-> type]),
     idx  |-> st.idx + 1]

\* for k, ellipsis_part in enumerate(ellipsis_parts)   (239-250), k 1-based
RECURSIVE EllipsisLoop(_, _, _)
EllipsisLoop(st, parts, k) ==
    IF k > Len(parts) THEN st
    ELSE IF Strip(parts[k]) = <<>> THEN EllipsisLoop(st, parts, k + 1)
    ELSE LET s1 == AppendSegment(st, Strip(parts[k]), TypeEllipsisPart)
             s2 == IF k < Len(parts)
                   THEN AppendSegment(s1, <<>>, TypeEllipsisPause)
                   ELSE s1
         IN  EllipsisLoop(s2, parts, k + 1)

\* A heading text without the '###' prefix.
HeadingTextAfterPrefix(line) ==
    Strip(Slice(Strip(line), Len(HeadingMarker) + 1, Len(Strip(line))))

\* 232: the text of a heading segment is line.strip()
HeadingText(line) == Strip(line)

\* The body of the line loop for one non-blank line (230-253).
LineSegments(st, line) ==
    IF StartsWith(Strip(line), HeadingMarker)
    THEN AppendSegment(st, HeadingText(line), TypeHeading)
    ELSE IF Contains(line, EllipsisMarker)
    THEN EllipsisLoop(st, Split(line, EllipsisMarker), 1)
    ELSE AppendSegment(st, Strip(line), TypeNormal)

\* for j, line in enumerate(lines)   (225-258), j 1-based
RECURSIVE LineLoop(_, _, _)
LineLoop(st, lines, j) ==
    IF j > Len(lines) THEN st
    ELSE IF Strip(lines[j]) = <<>> THEN LineLoop(st, lines, j + 1)
    ELSE LET s1 == LineSegments(st, lines[j])
             s2 == IF j < Len(lines)
                   THEN AppendSegment(s1, <<>>, TypeLineBreak)
                   ELSE s1
         IN  LineLoop(s2, lines, j + 1)

\* for i, part in enumerate(break_parts)   (217-263), i 1-based
RECURSIVE BreakLoop(_, _, _)
BreakLoop(st, parts, i) ==
    IF i > Len(parts) THEN st
    ELSE IF Strip(parts[i]) = <<>> THEN BreakLoop(st, parts, i + 1)
    ELSE LET s1 == LineLoop(st, Split(parts[i], Newline), 1)
             s2 == IF i < Len(parts)
                   THEN AppendSegment(s1, <<>>, TypeBreak)
                   ELSE s1
         IN  BreakLoop(s2, parts, i + 1)

\* A filter that keeps only the segments with text and so drops the pauses.
KeepSegmentBuggy(s) ==
    Strip(s.text) # <<>>

\* The filter of line 266: keep a segment with text, or a pause marker.
KeepSegment(s) ==
    Strip(s.text) # <<>> \/ s.type \in {TypeLineBreak, TypeEllipsisPause, TypeBreak}

_prepare_segments(txt) ==
    SelectSeq(BreakLoop([segs |-> <<>>, idx |-> 0], Split(txt, BreakMarker), 1).segs,
              KeepSegment)

\* A test that sends every segment to the backend.
TreatsAsSpeech(s) == TRUE

\* A Speech segment carries text; a pause segment carries none.
IsSpeech(s) == Strip(s.text) # <<>>

(***************************************************************************)
(* The state of one pipeline run (AudioGenerator.generate, called by the   *)
(* task thread of BaseTaskManager._run_task).                              *)
(***************************************************************************)
VARIABLES
    text,               \* generate's text argument
    num_threads,        \* AudioGenerator.num_threads
    model_status,       \* model.py model_status['status']
    model_files,        \* is_model_downloaded(): the model files are on disk
    pc,                 \* position of the thread running generate
    pending,            \* how the with block is left: "return" or "raise"
    outcome,            \* "none", or how generate ended: "returned", "raised"
    segments,           \* the list _prepare_segments returned
    work_queue,         \* queue.Queue of segments
    unfinished_tasks,   \* work_queue's count of put items without task_done
    result_queue,       \* queue.Queue of results
    wpc,                \* position of each worker thread
    wheld,              \* the segment or the result a worker holds
    processed_segments, \* _monitor_progress's counter
    segment_files,      \* _monitor_progress's list of collected results
    temp_dir,           \* the scratch directory exists
    temp_files,         \* the segment files in the scratch directory
    output_file,        \* what this run wrote to OUTPUT_FOLDER/output_filename:
                        \* "nothing", "fresh" (a whole file), "partial"
    output_audio,       \* the pieces of the file this run wrote
    cancel_requested,   \* BaseTaskManager.cancel_requested
    progress,           \* the percents passed to progress_callback
    callback_false,     \* progress_callback has returned False
    wcall,              \* the outcome of the backend call a worker just made
    failed,             \* the indices of the segments whose backend call failed
    late_claims,        \* the indices claimed after progress_callback
                        \* returned False
    exit_removed,       \* the files removed with the scratch directory
    combine_result,     \* "none", or what _combine_audio_segments returned:
                        \* "True" or "False"
    fallback_result,    \* "none", or the outcome of the fallback synthesis
    task,               \* position of the thread running _run_task; "none"
                        \* when generate is called without a task manager
    notified,           \* how the task ended for the notifier: "none",
                        \* "cancelled", "error", "completed"
    routine_saved,      \* _save_routine has stored the routine
    cancel_in_audio,    \* cancel_task was called during generate, after a
                        \* segment was processed
    runner,             \* who runs the task: "base" (BaseTaskManager._run_task),
                        \* "file" (tasks.generate_audio_task), "none"
    voice_type,         \* the task's voice_type: "sample" or "upload"
    voice_file,         \* os.path.exists(voice_path)
    voice_temp,         \* 'temp_' in os.path.basename(voice_path)
    remove_fails,       \* os.remove(voice_path) raises
    task_status,        \* the status in the task file of tasks.py: "none",
                        \* "pending", "processing", "completed", "failed"
    task_dir,           \* TASKS_FOLDER as clean_old_tasks lists it: per task
                        \* file its status, its age in hours and whether
                        \* os.remove raises on it
    removed_files,      \* the task files clean_old_tasks has removed
    removed_count,      \* clean_old_tasks' removed_count
    cleaned,            \* clean_old_tasks has returned
    settings,           \* which pause durations the settings hold: "default"
                        \* or "changed"
    silences,           \* self.heading_silence, ..., self.break_silence: the
                        \* settings the generator has loaded them from
    start_settings,     \* the settings when generate loaded them (459)
    whandle,            \* per worker, the TTS instance its local `tts` holds
                        \* during a backend call (0: none); tracked where the
                        \* call is taken in two steps
    handles_made,       \* the TTS instances constructed so far
    start_pc,           \* where the caller of start_task is: "notify" (the
                        \* thread is started, notify_started is to come) or
                        \* "returned"
    own_percents,       \* the percents _run_task itself has passed to
                        \* notify_progress
    terminals,          \* the notify_completed and notify_failed calls of
                        \* the task, in their order
    current_task,       \* BaseTaskManager.current_task where several tasks
                        \* are started: the task whose thread it holds, 0
                        \* for None
    tpc,                \* per such task, where its thread is in _run_task
    treport,            \* per such task, "none" or its terminal
                        \* notification: "cancelled" (notify_failed with
                        \* 'Task cancelled'), "failed", "completed"
    cancel_for,         \* the tasks that were the current task when
                        \* cancel_task set cancel_requested
    routines,           \* routine.py _routines: per routine its id and its
                        \* output_filename
    output_folder,      \* the audio files in OUTPUT_FOLDER
    uuids,              \* the uuid4 values drawn so far
    model_error,        \* model.py model_status['error']: "None" or "message"
    tts_call,           \* the last get_tts_model call: the status that
                        \* get_model_status reported in it and what it
                        \* returned ("handle" or "none"); <<>> before any
    dpc                 \* per download thread, where download_model_task is:
                        \* "unborn", "start" (thread started), "clear"
                        \* (after 107), "download" (in TTS(MODEL_NAME)),
                        \* "failing" (after 121), "done"

vars == <<text, num_threads, model_status, model_files, pc, pending, outcome,
          segments, work_queue, unfinished_tasks, result_queue, wpc, wheld,
          wcall, processed_segments, segment_files, progress, callback_false,
          temp_dir, temp_files, output_file, output_audio, cancel_requested,
          failed, late_claims, exit_removed, combine_result, fallback_result,
          task, notified, routine_saved, cancel_in_audio,
          runner, voice_type, voice_file, voice_temp, remove_fails,
          task_status, task_dir, removed_files, removed_count, cleaned,
          settings, silences, start_settings, whandle, handles_made, dpc,
          model_error, tts_call, start_pc, own_percents, terminals,
          current_task, tpc, treport, cancel_for, routines, output_folder,
          uuids>>

\* Groups of variables, for the UNCHANGED clauses.
inputVars == <<text, num_threads, model_files>>
mainVars == <<pc, pending, outcome>>
queueVars == <<segments, work_queue, unfinished_tasks, result_queue>>
workerVars == <<wpc, wheld, wcall>>
monitorVars == <<processed_segments, segment_files, progress, callback_false>>
fileVars == <<temp_dir, temp_files, output_file, output_audio>>
taskVars == <<task, notified, routine_saved, cancel_in_audio>>
voiceVars == <<runner, voice_type, voice_file, voice_temp, remove_fails,
               task_status>>
cleanVars == <<task_dir, removed_files, removed_count, cleaned>>
handleVars == <<whandle, handles_made>>
pauseVars == <<settings, silences, start_settings>>
managerVars == <<start_pc, own_percents, terminals>>
routineVars == <<routines, output_folder, uuids>>
poolVars == <<current_task, tpc, treport, cancel_for>>
idleVars == <<dpc, model_error, tts_call, cleanVars, handleVars, pauseVars,
              poolVars, routineVars>>
appVars == <<idleVars, managerVars>>
historyVars == <<failed, late_claims, exit_removed, combine_result,
                 fallback_result>>

Workers == 1..MaxThreads
ManagerTasks == 1..MaxManagerTasks
DownloadThreads == 1..MaxDownloads
Nothing == [idx |-> -1]

RunTexts == TextsUpTo(RunLexemes, MaxLex)
SegTexts(k) == TextsUpTo(SegLexemes, k)

(***************************************************************************)
(* The backend.  get_tts_model (model.py 160-176) and get_model_status     *)
(* (87-99); a synthesis call either writes a readable file, returns        *)
(* without a file, raises, or leaves a file and raises (tts_to_file or     *)
(* AudioSegment.from_file failing on what was written).                    *)
(***************************************************************************)
\* get_model_status: the status after the call.
get_model_status(status, files) ==
    IF status # "downloaded" /\ files THEN "downloaded" ELSE status

\* 96-97: get_model_status: the error after the call.
get_model_error(status, files, error) ==
    IF status # "downloaded" /\ files THEN "None" ELSE error

\* A get_tts_model that constructs the backend whatever the status is.
IgnoresStatus(status) == {"handle", "none"}

\* get_tts_model: the values it can return, given the status after
\* get_model_status: a handle, or None (not downloaded, or TTS() raised).
get_tts_model(status) ==
    IF status = "downloaded" THEN {"handle", "none"} ELSE {"none"}

CallOutcomes == {"ok", "nofile", "raise", "partial"}

\* What one _process_text_segment call on a Speech segment can meet.
SpeechOutcomes(status) ==
    {"nohandle"} \cup
    (IF "handle" \in get_tts_model(status) THEN CallOutcomes ELSE {})

\* os.path.join(temp_dir, f"segment_{segment_index}_{segment_type}.wav")
SegmentFile(seg) == <<seg.idx, seg.type>>
NoFile == <<>>

\* _load_pause_durations (57-69): the silences, in milliseconds, for the
\* default settings.
heading_silence == 5000
ellipsis_silence == 2000
line_silence == 2000
break_silence == 5000

PauseKinds ==
    {"heading_silence", "ellipsis_silence", "line_silence", "break_silence"}

\* The default settings (58-61), in milliseconds.
DefaultPauses ==
    [which \in PauseKinds |->
        CASE which = "heading_silence"  -> heading_silence
          [] which = "ellipsis_silence" -> ellipsis_silence
          [] which = "line_silence"     -> line_silence
          [] which = "break_silence"    -> break_silence]

\* Settings the user has changed: every pause a second longer.
ChangedPauses == [which \in PauseKinds |-> DefaultPauses[which] + 1000]

PauseSettings == {"default", "changed"}

\* The pause durations of the settings of a name, in milliseconds.
PausesOf(name) == IF name = "default" THEN DefaultPauses ELSE ChangedPauses

\* 57-69: _load_pause_durations makes the four silences from the settings.
_load_pause_durations == silences' = settings

\* 53: the constructor of the generator has loaded the silences.
GeneratorLoaded ==
    /\ silences = settings
    /\ start_settings = settings

\* The settings are the defaults.
DefaultSettings == settings = "default" /\ GeneratorLoaded

\* A pause result that carries the length of the silence of its kind.
PauseResultWithSilence(seg) ==
    [idx |-> seg.idx, type |-> seg.type, file |-> NoFile,
     duration |-> CASE seg.type = TypeLineBreak     -> line_silence
                    [] seg.type = TypeEllipsisPause -> ellipsis_silence
                    [] seg.type = TypeBreak         -> break_silence
                    [] OTHER                        -> 0,
     success |-> TRUE]

\* 120-123: the result for a segment without text: return segment_info, "",
\* 0, True
PauseResult(seg) ==
    [idx |-> seg.idx, type |-> seg.type, file |-> NoFile, duration |-> 0,
     success |-> TRUE]

\* 147-148: len(AudioSegment.from_file(output_file)), the milliseconds of the
\* audio the backend rendered for a text; here a millisecond per character.
AudioLength(txt) == Len(txt)

\* Stands for an exception leaving _process_text_segment instead of a result.
Escaped == [idx |-> -2]

\* _process_text_segment without its `except Exception` (159-161): an
\* exception of the backend call leaves the function.
ProcessUncaught(seg, o) ==
    IF ~IsSpeech(seg)
    THEN PauseResult(seg)
    ELSE IF o = "ok"
    THEN [idx |-> seg.idx, type |-> seg.type, file |-> SegmentFile(seg),
          duration |-> AudioLength(seg.text), success |-> TRUE]
    ELSE IF o \in {"raise", "partial"}
    THEN Escaped
    ELSE [idx |-> seg.idx, type |-> seg.type, file |-> NoFile, duration |-> 0,
          success |-> FALSE]

\* _process_text_segment (98-161): the result tuple
\* (segment_info, output_file, duration, success) for a backend outcome.
_process_text_segment(seg, o) ==
    IF ~IsSpeech(seg)
    THEN PauseResult(seg)
    ELSE IF o = "ok"
    THEN [idx |-> seg.idx, type |-> seg.type, file |-> SegmentFile(seg),
          duration |-> AudioLength(seg.text), success |-> TRUE]
    ELSE [idx |-> seg.idx, type |-> seg.type, file |-> NoFile, duration |-> 0,
          success |-> FALSE]

\* The files a call leaves in the scratch directory.
FilesAfterCall(files, seg, o) ==
    IF IsSpeech(seg) /\ o \in {"ok", "partial"}
    THEN files \cup {SegmentFile(seg)}
    ELSE files

(***************************************************************************)
(* _combine_audio_segments (271-357).                                      *)
(***************************************************************************)
\* list.sort(key=lambda x: x[0][0]): a stable insertion sort on the index.
RECURSIVE InsertByIndex(_, _)
InsertByIndex(sorted, r) ==
    IF sorted = <<>> THEN <<r>>
    ELSE IF sorted[Len(sorted)].idx <= r.idx THEN Append(sorted, r)
    ELSE Append(InsertByIndex(Slice(sorted, 1, Len(sorted) - 1), r),
                sorted[Len(sorted)])

RECURSIVE SortFrom(_, _, _)
SortFrom(sorted, rs, i) ==
    IF i > Len(rs) THEN sorted
    ELSE SortFrom(InsertByIndex(sorted, rs[i]), rs, i + 1)

\* The results left in arrival order.
Unsorted(rs) == rs

\* 286: segment_files.sort(key=lambda x: x[0]['index'])
SortByIndex(rs) == SortFrom(<<>>, rs, 1)

\* A filter that keeps every result, failed ones too.
KeepsFailed(r) == TRUE

\* 289: the filter `if s[3]`: the success flag of a result
IsValid(r) == r.success

\* valid_segments = [s for s in segment_files if s[3]], after the sort
ValidSegments(rs) == SelectSeq(SortByIndex(rs), IsValid)

\* The audio of a result's file: as long as the duration measured from the
\* same file when the segment was processed.
SegmentAudio(r) == [idx |-> r.idx, piece |-> "audio", ms |-> r.duration]

\* A silence made from the setting in seconds, without the factor 1000.
SilenceOfSeconds(r, which, ms) ==
    [idx |-> r.idx, piece |-> which, ms |-> ms \div 1000]

\* 66-69, 307-344: AudioSegment.silent(duration=seconds * 1000), appended
\* for the result r.
Silence(r, which, ms) == [idx |-> r.idx, piece |-> which, ms |-> ms]

\* A combine that replaces a heading by its pause.
PiecesHeadingSilent(r) ==
    CASE r.type \in {TypeNormal, TypeEllipsisPart} -> <<SegmentAudio(r)>>
      [] r.type = TypeHeading       -> <<Silence(r, "heading_silence", heading_silence)>>
      [] r.type = TypeLineBreak     -> <<Silence(r, "line_silence", line_silence)>>
      [] r.type = TypeEllipsisPause -> <<Silence(r, "ellipsis_silence", ellipsis_silence)>>
      [] r.type = TypeBreak         -> <<Silence(r, "break_silence", break_silence)>>
      [] OTHER                      -> <<>>

\* The silences of a generator that reads the settings when it appends.
CurrentSetting(which) == PausesOf(settings)[which]

\* 307-344: self.heading_silence, ..., self.break_silence as loaded
LoadedSilence(which) == PausesOf(silences)[which]

\* What one retained result appends to `combined` (307-344).
Pieces(r) ==
    CASE r.type = TypeNormal        -> <<SegmentAudio(r)>>
      [] r.type = TypeHeading       ->
             <<SegmentAudio(r),
               Silence(r, "heading_silence", LoadedSilence("heading_silence"))>>
      [] r.type = TypeLineBreak     ->
             <<Silence(r, "line_silence", LoadedSilence("line_silence"))>>
      [] r.type = TypeEllipsisPart  -> <<SegmentAudio(r)>>
      [] r.type = TypeEllipsisPause ->
             <<Silence(r, "ellipsis_silence", LoadedSilence("ellipsis_silence"))>>
      [] r.type = TypeBreak         ->
             <<Silence(r, "break_silence", LoadedSilence("break_silence"))>>
      [] OTHER                      -> <<>>

RECURSIVE Concatenate(_, _)
Concatenate(rs, i) ==
    IF i > Len(rs) THEN <<>> ELSE Pieces(rs[i]) \o Concatenate(rs, i + 1)

\* The audio exported for a list of collected results.
CombinedAudio(rs) == Concatenate(ValidSegments(rs), 1)

\* 304-347: len(combined) of the exported audio; `combined += x` appends
\* without a crossfade, so the lengths add up.
RECURSIVE ExportedMs(_)
ExportedMs(pieces) ==
    IF pieces = <<>> THEN 0 ELSE pieces[1].ms + ExportedMs(Tail(pieces))

\* The fixed phrase of _generate_fallback_audio (521).
FallbackAudio == <<[idx |-> -1, piece |-> "No valid text segments found"]>>

(***************************************************************************)
(* Initial state: no run in progress.  The text, the thread budget and the *)
(* presence of the model files are the run's inputs.                       *)
(***************************************************************************)
InitRest ==
    /\ model_status = "not_downloaded"
    /\ model_error = "None"
    /\ tts_call = <<>>
    /\ own_percents = <<>>
    /\ terminals = <<>>
    /\ current_task = 0
    /\ tpc = [t \in ManagerTasks |-> "unstarted"]
    /\ treport = [t \in ManagerTasks |-> "none"]
    /\ cancel_for = {}
    /\ routines = {}
    /\ output_folder = {}
    /\ uuids = 0
    /\ dpc = [d \in DownloadThreads |-> "unborn"]
    /\ whandle = [w \in Workers |-> 0]
    /\ handles_made = 0
    /\ pending = "none"
    /\ outcome = "none"
    /\ segments = <<>>
    /\ work_queue = <<>>
    /\ unfinished_tasks = 0
    /\ result_queue = <<>>
    /\ wpc = [w \in Workers |-> "unstarted"]
    /\ wheld = [w \in Workers |-> Nothing]
    /\ wcall = [w \in Workers |-> "none"]
    /\ processed_segments = 0
    /\ progress = <<>>
    /\ callback_false = FALSE
    /\ output_file = "nothing"
    /\ output_audio = <<>>
    /\ cancel_requested = FALSE
    /\ failed = {}
    /\ late_claims = {}
    /\ exit_removed = {}
    /\ combine_result = "none"
    /\ fallback_result = "none"
    /\ notified = "none"
    /\ routine_saved = FALSE
    /\ cancel_in_audio = FALSE

InitRun(texts) ==
    /\ text \in texts
    /\ num_threads \in 1..MaxThreads
    /\ model_files \in BOOLEAN
    /\ pc = "idle"
    /\ segment_files = <<>>
    /\ temp_dir = FALSE
    /\ temp_files = {}
    /\ InitRest

\* A sample voice: no temporary voice file to remove.
SampleVoice ==
    /\ voice_type = "sample"
    /\ voice_file = TRUE
    /\ voice_temp = FALSE
    /\ remove_fails = FALSE

\* clean_old_tasks is not called.
NoCleanup ==
    /\ DefaultSettings
    /\ start_pc = "returned"
    /\ task_dir = <<>>
    /\ removed_files = {}
    /\ removed_count = 0
    /\ cleaned = FALSE

\* No task runner: generate is called directly.
NoRunner ==
    /\ NoCleanup
    /\ task = "none"
    /\ runner = "none"
    /\ task_status = "none"
    /\ SampleVoice

\* generate called through generate_audio, without a task manager.
Init == InitRun(RunTexts) /\ NoRunner

(***************************************************************************)
(* generate (439-507), up to the start of the worker threads.              *)
(***************************************************************************)
Min(a, b) == IF a <= b THEN a ELSE b

\* A pool that starts the whole thread budget.
ThreadCountBudget(threads, num_segments) == threads

\* _setup_worker_threads (377): thread_count
ThreadCount(threads, num_segments) == Min(threads, num_segments)

\* 465-485: enter the with block, segment the text, fill the work queue and
\* start the worker threads.  The code reads neither text nor num_threads
\* again, so the model drops their values here: runs of different texts
\* with the same segments coincide from this state on.
GenerateStart ==
    /\ pc = "idle"
    /\ LET segs == _prepare_segments(text)
       IN  /\ segments' = segs
           /\ work_queue' = segs
           /\ unfinished_tasks' = Len(segs)
           /\ wpc' = [w \in Workers |->
                        IF w <= ThreadCount(num_threads, Len(segs))
                        THEN "check" ELSE "unstarted"]
    /\ temp_dir' = TRUE
    /\ pc' = "monitor"
    /\ text' = <<>>
    /\ num_threads' = 0
    /\ _load_pause_durations
    /\ start_settings' = settings
    /\ UNCHANGED <<dpc, model_error, tts_call, cleanVars, handleVars, settings, voiceVars, managerVars, poolVars, routineVars, taskVars, model_status, model_files, pending, outcome, result_queue,
                   wheld, wcall, monitorVars, temp_files, output_file,
                   output_audio, cancel_requested, historyVars>>

(***************************************************************************)
(* _worker (163-196).                                                      *)
(***************************************************************************)
\* A worker that also leaves when a single segment is queued.
WorkerLeavesEarly(w) ==
    /\ wpc[w] = "check"
    /\ wpc' = [wpc EXCEPT ![w] = IF Len(work_queue) <= 1
                                 THEN "exited" ELSE "get"]
    /\ UNCHANGED <<appVars, voiceVars, taskVars, inputVars, model_status,
                   mainVars, queueVars, wheld, wcall, monitorVars, fileVars,
                   cancel_requested, historyVars>>

\* 177: while not work_queue.empty()
WorkerCheck(w) ==
    /\ wpc[w] = "check"
    /\ wpc' = [wpc EXCEPT ![w] = IF work_queue = <<>> THEN "exited" ELSE "get"]
    /\ UNCHANGED <<appVars, voiceVars, taskVars, inputVars, model_status, mainVars, queueVars, wheld, wcall,
                   monitorVars, fileVars, cancel_requested, historyVars>>

\* 180: work_queue.get(), which blocks while the queue is empty
WorkerGet(w) ==
    /\ wpc[w] = "get"
    /\ work_queue # <<>>
    /\ wheld' = [wheld EXCEPT ![w] = Head(work_queue)]
    /\ work_queue' = Tail(work_queue)
    /\ wpc' = [wpc EXCEPT ![w] = "process"]
    /\ late_claims' = IF callback_false
                      THEN late_claims \cup {Head(work_queue).idx}
                      ELSE late_claims
    /\ UNCHANGED <<appVars, voiceVars, taskVars, inputVars, model_status, mainVars, segments,
                   unfinished_tasks, result_queue, wcall, monitorVars,
                   fileVars, cancel_requested, failed, exit_removed,
                   combine_result, fallback_result>>

\* 183-194: the worker after _process_text_segment: it holds the result, or,
\* had an exception left the call, it is in the except branch, which marks
\* the task done and puts no result.
AfterProcess(w, r) ==
    IF r = Escaped
    THEN /\ wheld' = [wheld EXCEPT ![w] = Nothing]
         /\ wpc' = [wpc EXCEPT ![w] = "check"]
         /\ unfinished_tasks' = unfinished_tasks - 1
    ELSE /\ wheld' = [wheld EXCEPT ![w] = r]
         /\ wpc' = [wpc EXCEPT ![w] = "put"]
         /\ UNCHANGED unfinished_tasks

\* 183: _process_text_segment on a pause segment (121-123): no backend call
WorkerProcessPause(w) ==
    /\ wpc[w] = "process"
    /\ ~IsSpeech(wheld[w])
    /\ AfterProcess(w, _process_text_segment(wheld[w], "none"))
    /\ UNCHANGED <<appVars, voiceVars, taskVars, inputVars, model_status, mainVars, segments, work_queue,
                   result_queue, wcall, monitorVars, fileVars,
                   cancel_requested, historyVars>>

\* 183: _process_text_segment on a Speech segment (125-161)
WorkerProcessSpeech(w) ==
    /\ wpc[w] = "process"
    /\ IsSpeech(wheld[w])
    /\ model_status' = get_model_status(model_status, model_files)
    /\ model_error' = get_model_error(model_status, model_files, model_error)
    /\ \E o \in SpeechOutcomes(model_status') :
        /\ AfterProcess(w, _process_text_segment(wheld[w], o))
        /\ wcall' = [wcall EXCEPT ![w] = o]
        /\ temp_files' = FilesAfterCall(temp_files, wheld[w], o)
        /\ failed' = IF o = "ok" THEN failed ELSE failed \cup {wheld[w].idx}
    /\ UNCHANGED <<dpc, tts_call, cleanVars, handleVars, pauseVars, voiceVars, managerVars, poolVars, routineVars,
                   taskVars, inputVars, mainVars, segments, work_queue, result_queue,
                   monitorVars, temp_dir, output_file, output_audio,
                   cancel_requested, late_claims, exit_removed,
                   combine_result, fallback_result>>

\* A backend instance made once and handed to every caller.
SharedHandle(made) == 1

\* model.py 173: return TTS(MODEL_NAME), a new instance at every call
NewHandle(made) == made + 1

\* 125-130: the first step of _process_text_segment on a Speech segment:
\* get_tts_model; without a model the failure result is returned.
WorkerGetModel(w) ==
    /\ wpc[w] = "process"
    /\ IsSpeech(wheld[w])
    /\ model_status' = get_model_status(model_status, model_files)
    /\ model_error' = get_model_error(model_status, model_files, model_error)
    /\ \E h \in get_tts_model(model_status') :
         IF h = "none"
         THEN /\ AfterProcess(w, _process_text_segment(wheld[w], "nohandle"))
              /\ wcall' = [wcall EXCEPT ![w] = "nohandle"]
              /\ failed' = failed \cup {wheld[w].idx}
              /\ UNCHANGED handleVars
         ELSE /\ whandle' = [whandle EXCEPT ![w] = NewHandle(handles_made)]
              /\ handles_made' = handles_made + 1
              /\ wpc' = [wpc EXCEPT ![w] = "synth"]
              /\ UNCHANGED <<wheld, wcall, unfinished_tasks, failed>>
    /\ UNCHANGED <<dpc, tts_call, cleanVars, pauseVars, voiceVars, managerVars, poolVars, routineVars, taskVars, inputVars,
                   mainVars, segments, work_queue, result_queue, monitorVars, fileVars,
                   cancel_requested, late_claims, exit_removed,
                   combine_result, fallback_result>>

\* 132-161: the second step: tts.tts_to_file on the instance and the result;
\* the local `tts` is dropped at the return.
WorkerSynthesize(w) ==
    /\ wpc[w] = "synth"
    /\ \E o \in CallOutcomes :
        /\ AfterProcess(w, _process_text_segment(wheld[w], o))
        /\ wcall' = [wcall EXCEPT ![w] = o]
        /\ temp_files' = FilesAfterCall(temp_files, wheld[w], o)
        /\ failed' = IF o = "ok" THEN failed ELSE failed \cup {wheld[w].idx}
    /\ whandle' = [whandle EXCEPT ![w] = 0]
    /\ UNCHANGED <<dpc, model_error, tts_call, cleanVars, pauseVars, handles_made, voiceVars, managerVars, poolVars, routineVars, taskVars,
                   inputVars, model_status, mainVars, segments, work_queue,
                   result_queue, monitorVars, temp_dir, output_file,
                   output_audio, cancel_requested, late_claims, exit_removed,
                   combine_result, fallback_result>>

\* 186: result_queue.put(result)
WorkerPut(w) ==
    /\ wpc[w] = "put"
    /\ result_queue' = Append(result_queue, wheld[w])
    /\ wheld' = [wheld EXCEPT ![w] = Nothing]
    /\ wcall' = [wcall EXCEPT ![w] = "none"]
    /\ wpc' = [wpc EXCEPT ![w] = "task_done"]
    /\ UNCHANGED <<appVars, voiceVars, taskVars, inputVars, model_status, mainVars, segments, work_queue,
                   unfinished_tasks, monitorVars, fileVars, cancel_requested,
                   historyVars>>

\* A worker that does not mark its task done.
WorkerSkipsTaskDone(w) ==
    /\ wpc[w] = "task_done"
    /\ wpc' = [wpc EXCEPT ![w] = "check"]
    /\ UNCHANGED <<appVars, voiceVars, taskVars, inputVars, model_status,
                   mainVars, queueVars, wheld, wcall, monitorVars, fileVars,
                   cancel_requested, historyVars>>

\* 189: work_queue.task_done()
WorkerTaskDone(w) ==
    /\ wpc[w] = "task_done"
    /\ unfinished_tasks' = unfinished_tasks - 1
    /\ wpc' = [wpc EXCEPT ![w] = "check"]
    /\ UNCHANGED <<appVars, voiceVars, taskVars, inputVars, model_status, mainVars, segments, work_queue,
                   result_queue, wheld, wcall, monitorVars, fileVars,
                   cancel_requested, historyVars>>

(***************************************************************************)
(* _monitor_progress (393-437) with the progress callback of               *)
(* BaseTaskManager._run_task (base_task_manager.py 195-198).               *)
(***************************************************************************)
\* A loop that ends one result short.
MonitorDoneEarly(processed, total) == processed + 1 >= total

\* 411 / 428: the loop ends when every segment was counted
MonitorDone(processed, total) == processed >= total

\* A percent that counts what remains instead of what was processed.
ProgressPercentRemaining(processed, total) ==
    ((total - processed) * 100) \div total

\* 420: int(processed_segments / total_segments * 100).  The float quotient
\* times 100, truncated, is this integer for every total below 50.
ProgressPercent(processed, total) == (processed * 100) \div total

\* 411 with the loop condition false on entry
MonitorSkip ==
    /\ pc = "monitor"
    /\ processed_segments = 0
    /\ MonitorDone(processed_segments, Len(segments))
    /\ pc' = "drain"
    /\ UNCHANGED <<appVars, voiceVars, taskVars, inputVars, model_status, pending, outcome, queueVars,
                   workerVars, monitorVars, fileVars, cancel_requested,
                   historyVars>>

\* 413-430: one iteration that finds a result.  The callback reports the
\* percent and returns not cancel_requested; _monitor_progress does not use
\* the returned value.
MonitorCollect ==
    /\ pc = "monitor"
    /\ ~MonitorDone(processed_segments, Len(segments))
    /\ result_queue # <<>>
    /\ segment_files' = Append(segment_files, Head(result_queue))
    /\ result_queue' = Tail(result_queue)
    /\ processed_segments' = processed_segments + 1
    /\ progress' = Append(progress,
                          ProgressPercent(processed_segments', Len(segments)))
    /\ callback_false' = (callback_false \/ cancel_requested)
    /\ pc' = IF MonitorDone(processed_segments', Len(segments))
             THEN "drain" ELSE "monitor"
    /\ UNCHANGED <<appVars, voiceVars, taskVars, inputVars, model_status, pending, outcome, segments,
                   work_queue, unfinished_tasks, workerVars, fileVars,
                   cancel_requested, historyVars>>

\* 433-434: while not result_queue.empty(): segment_files.append(get())
MonitorDrain ==
    /\ pc = "drain"
    /\ IF result_queue = <<>>
       THEN /\ pc' = "join"
            /\ UNCHANGED <<segment_files, result_queue>>
       ELSE /\ segment_files' = Append(segment_files, Head(result_queue))
            /\ result_queue' = Tail(result_queue)
            /\ pc' = "drain"
    /\ UNCHANGED <<appVars, voiceVars, taskVars, inputVars, model_status, pending, outcome, segments,
                   work_queue, unfinished_tasks, workerVars,
                   processed_segments, progress, callback_false, fileVars,
                   cancel_requested, historyVars>>

(***************************************************************************)
(* generate (487-507): join, assemble, fall back, leave the with block.    *)
(***************************************************************************)
\* 491: work_queue.join() returns when every put item was marked done
Join ==
    /\ pc = "join"
    /\ unfinished_tasks = 0
    /\ pc' = "combine"
    /\ UNCHANGED <<appVars, voiceVars, taskVars, inputVars, model_status, pending, outcome, queueVars,
                   workerVars, monitorVars, fileVars, cancel_requested,
                   historyVars>>

\* 289-291: the segments that are exported, if any
HasValidSegments(rs) == ValidSegments(rs) # <<>>

\* 495-499: _combine_audio_segments; True after the export, False without
Combine ==
    /\ pc = "combine"
    /\ IF HasValidSegments(segment_files)
       THEN /\ output_audio' = CombinedAudio(segment_files)
            /\ output_file' = "fresh"
            /\ combine_result' = "True"
            /\ pending' = "return"
            /\ pc' = "exit"
       ELSE /\ combine_result' = "False"
            /\ pc' = "fallback"
            /\ UNCHANGED <<output_audio, output_file, pending>>
    /\ UNCHANGED <<appVars, voiceVars, taskVars, inputVars, model_status, outcome, queueVars, workerVars,
                   monitorVars, temp_dir, temp_files, cancel_requested,
                   failed, late_claims, exit_removed, fallback_result>>

\* A fallback that raises whatever the backend does.
FallbackRaisesAlways(o) == TRUE

\* _generate_fallback_audio (509-526): how the call ends for an outcome.
\* tts is None without a handle, and None.tts_to_file raises.
FallbackRaises(o) == o \in {"nohandle", "raise", "partial"}

\* The output file after the fallback call.
FallbackFile(file, o) ==
    CASE o = "ok"      -> "fresh"
      [] o = "partial" -> "partial"
      [] OTHER         -> file

Fallback ==
    /\ pc = "fallback"
    /\ model_status' = get_model_status(model_status, model_files)
    /\ model_error' = get_model_error(model_status, model_files, model_error)
    /\ \E o \in SpeechOutcomes(model_status') :
        /\ fallback_result' = o
        /\ output_file' = FallbackFile(output_file, o)
        /\ output_audio' = IF o = "ok" THEN FallbackAudio ELSE output_audio
        /\ pending' = IF FallbackRaises(o) THEN "raise" ELSE "return"
    /\ pc' = "exit"
    /\ UNCHANGED <<dpc, tts_call, cleanVars, handleVars, pauseVars, voiceVars, managerVars, poolVars, routineVars,
                   taskVars, inputVars, outcome, queueVars, workerVars, monitorVars,
                   temp_dir, temp_files, cancel_requested, failed,
                   late_claims, exit_removed, combine_result>>

\* A cleanup that happens on return only, not on an exception.
CleanupOnReturnOnly(how, exists) == IF how = "return" THEN FALSE ELSE exists

\* 467: leaving `with tempfile.TemporaryDirectory()` removes the directory
\* and what is in it, on return and on an exception alike.
DirAfterExit(how, exists) == FALSE

\* 500-507: the with block is left; generate returns output_filename or
\* re-raises.
Exit ==
    /\ pc = "exit"
    /\ temp_dir' = DirAfterExit(pending, temp_dir)
    /\ temp_files' = IF temp_dir' THEN temp_files ELSE {}
    /\ exit_removed' = temp_files \ temp_files'
    /\ outcome' = IF pending = "raise" THEN "raised" ELSE "returned"
    /\ pc' = "done"
    /\ UNCHANGED <<appVars, voiceVars, taskVars, inputVars, model_status, pending, queueVars, workerVars,
                   monitorVars, output_file, output_audio, cancel_requested,
                   failed, late_claims, combine_result, fallback_result>>

(***************************************************************************)
(* BaseTaskManager (base_task_manager.py): the task thread runs _run_task, *)
(* which calls generate; cancel_task is called from another thread.        *)
(***************************************************************************)
\* 78: current_task is not None and current_task.is_alive()
is_task_running == runner = "base" /\ task \notin {"none", "ended"}

\* 80-84
cancel_task ==
    /\ is_task_running
    /\ ~cancel_requested
    /\ cancel_requested' = TRUE
    /\ cancel_in_audio' = (/\ task = "generate"
                           /\ pc \notin {"idle", "done"}
                           /\ processed_segments > 0)
    /\ UNCHANGED <<appVars, voiceVars, task, notified, routine_saved, inputVars, model_status,
                   mainVars, queueVars, workerVars, monitorVars, fileVars,
                   historyVars>>

\* file_task_manager.py 135-187: notify_completed and notify_failed store
\* the status in the task file; without a task file (_load_task returns
\* None) they log an error and return.
StatusAfter(status, kind) == IF status = "none" THEN "none" ELSE kind

\* A terminal notification of the task: "completed" (231) or "failed"
\* (153, 244).
NotifyTerminal(kind) ==
    /\ terminals' = Append(terminals, kind)
    /\ task_status' = StatusAfter(task_status, kind)

\* A check that notifies the cancellation and lets _run_task go on.
CheckWithoutReturn(goes_on) ==
    /\ task' = goes_on
    /\ IF cancel_requested
       THEN /\ notified' = "cancelled"
            /\ NotifyTerminal("failed")
            /\ cancel_requested' = FALSE
       ELSE UNCHANGED <<notified, cancel_requested, terminals, task_status>>

\* 141-160: _check_cancellation, and where _run_task goes on when it
\* returns False.
_check_cancellation(goes_on) ==
    IF cancel_requested
    THEN /\ notified' = "cancelled"
         /\ NotifyTerminal("failed")
         /\ task' = "ended"
         /\ cancel_requested' = FALSE
    ELSE /\ task' = goes_on
         /\ UNCHANGED <<notified, cancel_requested, terminals, task_status>>

\* 126-139: _cleanup_temp_file; a failing os.remove is logged.
_cleanup_temp_file ==
    voice_file' = IF voice_type = "upload" /\ voice_file /\ voice_temp
                     /\ ~remove_fails
                  THEN FALSE ELSE voice_file

\* 236-244: the except branch of _run_task
RunTaskExcept ==
    /\ _cleanup_temp_file
    /\ notified' = "error"
    /\ NotifyTerminal("failed")
    /\ task' = "ended"
    /\ UNCHANGED cancel_requested

\* The variables of the task's voice file that os.remove does not change.
voiceInputs == <<runner, voice_type, voice_temp, remove_fails>>

\* 182-192: the first progress notification, the check before the audio
\* generation, the second progress notification
RunTaskBefore ==
    /\ runner = "base"
    /\ task = "started"
    /\ own_percents' = IF cancel_requested THEN <<0>> ELSE <<0, 0>>
    /\ _check_cancellation("generate")
    /\ UNCHANGED <<idleVars, start_pc, voiceInputs, voice_file, routine_saved,
                   cancel_in_audio, inputVars, model_status,
                   mainVars, queueVars, workerVars, monitorVars, fileVars,
                   historyVars>>

\* 201-208 and 236-244: generate has returned: the progress 100 and the
\* second check; or it raised and the except branch cleans up and notifies
RunTaskAfterGenerate ==
    /\ runner = "base"
    /\ task = "generate"
    /\ pc = "done"
    /\ IF outcome = "raised"
       THEN /\ RunTaskExcept
            /\ UNCHANGED own_percents
       ELSE /\ own_percents' = Append(own_percents, 100)
            /\ _check_cancellation("save")
            /\ UNCHANGED voice_file
    /\ UNCHANGED <<idleVars, start_pc, voiceInputs,
                   routine_saved, cancel_in_audio, inputVars, model_status,
                   mainVars, queueVars, workerVars, monitorVars, fileVars,
                   historyVars>>

\* 211-221: the temporary voice file is removed and the routine is stored;
\* then the progress 90 and the third check, or, _save_routine having
\* raised, the except branch
RunTaskSave ==
    /\ task = "save"
    /\ \E saved \in BOOLEAN :
         IF saved
         THEN /\ _cleanup_temp_file
              /\ routine_saved' = TRUE
              /\ own_percents' = Append(own_percents, 90)
              /\ _check_cancellation("complete")
         ELSE /\ RunTaskExcept
              /\ UNCHANGED <<routine_saved, own_percents>>
    /\ UNCHANGED <<idleVars, start_pc, voiceInputs,
                   cancel_in_audio, inputVars, model_status, mainVars,
                   queueVars, workerVars, monitorVars, fileVars, historyVars>>

\* 224-232: the progress 100 and notify_completed
RunTaskComplete ==
    /\ task = "complete"
    /\ own_percents' = Append(own_percents, 100)
    /\ notified' = "completed"
    /\ NotifyTerminal("completed")
    /\ task' = "ended"
    /\ UNCHANGED <<idleVars, start_pc, voiceInputs, voice_file, routine_saved,
                   cancel_in_audio, cancel_requested, inputVars,
                   model_status, mainVars, queueVars, workerVars, monitorVars,
                   fileVars, historyVars>>

\* 120-121 and file_task_manager.py 85-107: the caller of start_task, the
\* thread being started, calls notify_started, which writes a new task file
\* with the status 'processing'
StartTaskNotify ==
    /\ runner = "base"
    /\ start_pc = "notify"
    /\ task_status' = "processing"
    /\ start_pc' = "returned"
    /\ UNCHANGED <<idleVars, own_percents, terminals, voiceInputs, voice_file,
                   taskVars, cancel_requested, inputVars, model_status,
                   mainVars, queueVars, workerVars, monitorVars, fileVars,
                   historyVars>>

(***************************************************************************)
(* Several tasks on one BaseTaskManager: start_task has no guard, the      *)
(* threads share cancel_requested and current_task.  generate and          *)
(* _save_routine are taken as steps that return or raise.                  *)
(***************************************************************************)
\* What the steps of these tasks leave alone.
ManagerRest ==
    UNCHANGED <<dpc, model_error, tts_call, cleanVars, handleVars, pauseVars,
                managerVars, routineVars, voiceVars, taskVars, inputVars,
                model_status,
                mainVars, queueVars, workerVars, monitorVars, fileVars,
                historyVars>>

\* The tasks start_task has not started yet.
Unstarted == {t \in ManagerTasks : tpc[t] = "unstarted"}

\* 78: current_task is not None and current_task.is_alive()
IsTaskRunning == current_task # 0 /\ tpc[current_task] # "ended"

\* 105-124: start_task: the flag is reset and current_task is replaced,
\* whether or not a task is running
start_task ==
    /\ Unstarted # {}
    /\ LET t == CHOOSE u \in Unstarted : \A v \in Unstarted : u <= v
       IN  /\ current_task' = t
           /\ tpc' = [tpc EXCEPT ![t] = "started"]
    /\ cancel_requested' = FALSE
    /\ UNCHANGED <<treport, cancel_for>>
    /\ ManagerRest

\* 80-84: cancel_task
CancelCurrentTask ==
    /\ IsTaskRunning
    /\ cancel_requested' = TRUE
    /\ cancel_for' = cancel_for \cup {current_task}
    /\ UNCHANGED <<current_task, tpc, treport>>
    /\ ManagerRest

\* Where _run_task is before each of its checks, and where it goes on.
CheckedAt == {"started", "generated", "saved"}
AfterCheck(at) ==
    CASE at = "started"   -> "generate"
      [] at = "generated" -> "save"
      [] at = "saved"     -> "complete"

\* 141-160 in the thread of task t (186, 207, 220)
TaskCheck(t) ==
    /\ tpc[t] \in CheckedAt
    /\ IF cancel_requested
       THEN /\ treport' = [treport EXCEPT ![t] = "cancelled"]
            /\ current_task' = 0
            /\ cancel_requested' = FALSE
            /\ tpc' = [tpc EXCEPT ![t] = "ended"]
       ELSE /\ tpc' = [tpc EXCEPT ![t] = AfterCheck(tpc[t])]
            /\ UNCHANGED <<treport, current_task, cancel_requested>>
    /\ UNCHANGED cancel_for
    /\ ManagerRest

\* 201 and 214: generate_audio or _save_routine returns, or raises and the
\* except branch (236-244) notifies the failure
TaskStep(t) ==
    /\ tpc[t] \in {"generate", "save"}
    /\ \E raised \in BOOLEAN :
         IF raised
         THEN /\ treport' = [treport EXCEPT ![t] = "failed"]
              /\ tpc' = [tpc EXCEPT ![t] = "ended"]
         ELSE /\ tpc' = [tpc EXCEPT
                            ![t] = IF tpc[t] = "generate" THEN "generated"
                                   ELSE "saved"]
              /\ UNCHANGED treport
    /\ UNCHANGED <<current_task, cancel_requested, cancel_for>>
    /\ ManagerRest

\* 224-232: notify_completed
TaskComplete(t) ==
    /\ tpc[t] = "complete"
    /\ treport' = [treport EXCEPT ![t] = "completed"]
    /\ tpc' = [tpc EXCEPT ![t] = "ended"]
    /\ UNCHANGED <<current_task, cancel_requested, cancel_for>>
    /\ ManagerRest

(***************************************************************************)
(* The routines and their audio files (routine.py, audio.py 76-96,         *)
(* utils.py 13-32, base_task_manager.py 283-327).                          *)
(***************************************************************************)
\* The characters of the routine names: an upper-case letter, a lower-case
\* letter and one that is neither a letter nor a digit.
NameChars == {"A", "a", "!"}

\* utils.py 24: text.lower()
Lower(c) == IF c = "A" THEN "a" ELSE c

\* utils.py 26: the characters [a-z0-9] of the alphabet
SlugChars == {"a"}

\* utils.py 26: re.sub(r'[^a-z0-9]+', '-', text): every run of other
\* characters becomes one hyphen
RECURSIVE Hyphenated(_)
Hyphenated(t) ==
    IF t = <<>> THEN <<>>
    ELSE IF t[1] \in SlugChars THEN <<t[1]>> \o Hyphenated(Tail(t))
    ELSE IF Len(t) >= 2 /\ t[2] \notin SlugChars THEN Hyphenated(Tail(t))
    ELSE <<"-">> \o Hyphenated(Tail(t))

\* utils.py 28: text.strip('-')
RECURSIVE StripHyphens(_)
StripHyphens(t) ==
    IF t = <<>> THEN <<>>
    ELSE IF t[1] = "-" THEN StripHyphens(Tail(t))
    ELSE IF t[Len(t)] = "-" THEN StripHyphens(SubSeq(t, 1, Len(t) - 1))
    ELSE t

\* utils.py 13-32: slugify; the names are ASCII, which the normalisation
\* (22) leaves as they are
slugify(name) ==
    LET lowered == [i \in 1..Len(name) |-> Lower(name[i])]
        stripped == StripHyphens(Hyphenated(lowered))
    IN  IF stripped = <<>> THEN <<"routine">> ELSE stripped

\* audio.py 76-96: _generate_output_filename: the slug of the name, or a new
\* uuid for an empty name
_generate_output_filename(name, uuid) ==
    IF name # <<>> THEN [slug |-> slugify(name), uuid |-> 0]
    ELSE [slug |-> <<>>, uuid |-> uuid]

RoutineNames == UNION {[1..n -> NameChars] : n \in 0..MaxNameLen}

\* The ids of the stored routines.
RoutineIds == {r.id : r \in routines}

\* What the routine steps leave alone.
RoutineRest ==
    UNCHANGED <<dpc, model_error, tts_call, cleanVars, handleVars, pauseVars,
                poolVars, managerVars, voiceVars, taskVars, inputVars,
                model_status, mainVars, queueVars, workerVars, monitorVars,
                fileVars, cancel_requested, historyVars>>

\* base_task_manager.py 201-214 and 283-327: a task run that succeeds:
\* generate writes OUTPUT_FOLDER/output_filename, then _save_routine updates
\* the routine routine_id when it exists (update_routine, routine.py 68-92)
\* and adds a routine with a new uuid otherwise (add_routine, 41-66)
SaveRoutine(routine_id, name) ==
    /\ uuids < MaxSaves
    /\ LET output_filename == _generate_output_filename(name, uuids + 1)
       IN  /\ output_folder' = output_folder \cup {output_filename}
           /\ routines' =
                IF routine_id \in RoutineIds
                THEN {r \in routines : r.id # routine_id}
                     \cup {[id |-> routine_id,
                            output_filename |-> output_filename]}
                ELSE routines
                     \cup {[id |-> uuids + 1,
                            output_filename |-> output_filename]}
    /\ uuids' = uuids + 1
    /\ RoutineRest

\* routine.py 94-117: delete_routine: the audio file of the routine is
\* removed, a failing os.remove being ignored, and the routine is dropped
delete_routine(routine_id) ==
    /\ routine_id \in RoutineIds
    /\ LET routine == CHOOSE r \in routines : r.id = routine_id
       IN  \E removed \in BOOLEAN :
             output_folder' = IF removed
                              THEN output_folder \ {routine.output_filename}
                              ELSE output_folder
    /\ routines' = {r \in routines : r.id # routine_id}
    /\ UNCHANGED uuids
    /\ RoutineRest

(***************************************************************************)
(* tasks.generate_audio_task (tasks.py 53-158), the task thread of the     *)
(* file-based task system; start_task (160-214) has saved the task file    *)
(* with the status 'pending'.                                              *)
(***************************************************************************)
\* 73-81: the status becomes 'processing'
FileTaskBegin ==
    /\ runner = "file"
    /\ task = "started"
    /\ task_status' = "processing"
    /\ task' = "generate"
    /\ UNCHANGED <<appVars, runner, voice_type, voice_file, voice_temp, remove_fails,
                   notified, routine_saved, cancel_in_audio, cancel_requested,
                   inputVars, model_status, mainVars, queueVars, workerVars,
                   monitorVars, fileVars, historyVars>>

\* 89: the temporary voice file is to be removed
RemovesVoiceFile == voice_type = "upload" /\ voice_file /\ voice_temp

\* 85-129: generate_audio returned: os.remove (91) is not guarded, so its
\* exception reaches the except branch (134-155), which marks the task failed
\* and tries the removal again; otherwise the routine is stored and the
\* status becomes 'completed'.
FileTaskStore ==
    /\ runner = "file"
    /\ task = "generate"
    /\ pc = "done"
    /\ outcome = "returned"
    /\ IF RemovesVoiceFile /\ remove_fails
       THEN /\ task_status' = "failed"
            /\ UNCHANGED <<voice_file, routine_saved>>
       ELSE /\ voice_file' = IF RemovesVoiceFile THEN FALSE ELSE voice_file
            /\ routine_saved' = TRUE
            /\ task_status' = "completed"
    /\ task' = "ended"
    /\ UNCHANGED <<appVars, runner, voice_type, voice_temp, remove_fails, notified,
                   cancel_in_audio, cancel_requested, inputVars, model_status,
                   mainVars, queueVars, workerVars, monitorVars, fileVars,
                   historyVars>>

\* 134-158: generate_audio raised: the status becomes 'failed' and the
\* temporary voice file is removed, a failing os.remove being logged.
FileTaskFailed ==
    /\ runner = "file"
    /\ task = "generate"
    /\ pc = "done"
    /\ outcome = "raised"
    /\ task_status' = "failed"
    /\ _cleanup_temp_file
    /\ task' = "ended"
    /\ UNCHANGED <<appVars, runner, voice_type, voice_temp, remove_fails, notified,
                   routine_saved, cancel_in_audio, cancel_requested, inputVars,
                   model_status, mainVars, queueVars, workerVars, monitorVars,
                   fileVars, historyVars>>

(***************************************************************************)
(* The model download (model.py 87-158).                                   *)
(***************************************************************************)
\* The download threads that have been started and have not ended.
Alive == {d \in DownloadThreads :
            dpc[d] \in {"start", "clear", "download", "failing"}}

Unborn == {d \in DownloadThreads : dpc[d] = "unborn"}

\* 124-158: start_model_download; it reads the status through
\* get_model_status and starts a thread unless the status is 'downloading',
\* or 'downloaded' without force.  The status is not changed to
\* 'downloading' here.
start_model_download(force) ==
    LET current_status == get_model_status(model_status, model_files)
    IN  /\ model_error' = get_model_error(model_status, model_files,
                                          model_error)
        /\ IF \/ current_status = "downloading"
              \/ current_status = "downloaded" /\ ~force
           THEN /\ model_status' = current_status
                /\ UNCHANGED dpc
           ELSE /\ Unborn # {}
                /\ model_status' = IF current_status = "downloaded"
                                   THEN "not_downloaded" ELSE current_status
                /\ LET d == CHOOSE u \in Unborn : \A v \in Unborn : u <= v
                   IN  dpc' = [dpc EXCEPT ![d] = "start"]

StartModelDownload ==
    /\ \E force \in BOOLEAN : start_model_download(force)
    /\ UNCHANGED <<tts_call, cleanVars, handleVars, pauseVars, voiceVars, managerVars, poolVars, routineVars,
                   taskVars, inputVars, mainVars,
                   queueVars, workerVars, monitorVars, fileVars,
                   cancel_requested, historyVars>>

\* 87-99: a call of get_model_status by any other caller
GetModelStatus ==
    /\ model_status' = get_model_status(model_status, model_files)
    /\ model_error' = get_model_error(model_status, model_files, model_error)
    /\ UNCHANGED <<dpc, tts_call, cleanVars, handleVars, pauseVars, voiceVars, managerVars, poolVars, routineVars,
                   taskVars, inputVars, mainVars,
                   queueVars, workerVars, monitorVars, fileVars,
                   cancel_requested, historyVars>>

\* 160-176: a call of get_tts_model
GetTtsModel ==
    /\ model_status' = get_model_status(model_status, model_files)
    /\ model_error' = get_model_error(model_status, model_files, model_error)
    /\ \E h \in get_tts_model(model_status') :
         tts_call' = <<model_status', h>>
    /\ UNCHANGED <<dpc, cleanVars, handleVars, pauseVars, voiceVars, managerVars, poolVars, routineVars,
                   taskVars, inputVars, mainVars,
                   queueVars, workerVars, monitorVars, fileVars,
                   cancel_requested, historyVars>>

\* What the steps of a download thread leave alone.
DownloadRest ==
    UNCHANGED <<tts_call, cleanVars, handleVars, pauseVars, voiceVars, managerVars, poolVars, routineVars,
                taskVars, text, num_threads, mainVars,
                queueVars, workerVars, monitorVars, fileVars,
                cancel_requested, historyVars>>

\* 107: the download thread sets the status to 'downloading'
DownloadBegin(d) ==
    /\ dpc[d] = "start"
    /\ model_status' = "downloading"
    /\ dpc' = [dpc EXCEPT ![d] = "clear"]
    /\ UNCHANGED <<model_error, model_files>>
    /\ DownloadRest

\* 108: model_status['error'] = None
DownloadClearError(d) ==
    /\ dpc[d] = "clear"
    /\ model_error' = "None"
    /\ dpc' = [dpc EXCEPT ![d] = "download"]
    /\ UNCHANGED <<model_status, model_files>>
    /\ DownloadRest

\* 115-121: TTS(MODEL_NAME) returns, the files being on disk, and the
\* status becomes 'downloaded' (118); or it raises and the status becomes
\* 'failed' (121)
DownloadEnd(d) ==
    /\ dpc[d] = "download"
    /\ \E ok \in BOOLEAN :
         IF ok
         THEN /\ model_status' = "downloaded"
              /\ model_files' = TRUE
              /\ dpc' = [dpc EXCEPT ![d] = "done"]
         ELSE /\ model_status' = "failed"
              /\ UNCHANGED model_files
              /\ dpc' = [dpc EXCEPT ![d] = "failing"]
    /\ UNCHANGED model_error
    /\ DownloadRest

\* 122: model_status['error'] = str(e)
DownloadFailed(d) ==
    /\ dpc[d] = "failing"
    /\ model_error' = "message"
    /\ dpc' = [dpc EXCEPT ![d] = "done"]
    /\ UNCHANGED <<model_status, model_files>>
    /\ DownloadRest

(***************************************************************************)
(* clean_old_tasks (file_task_manager.py 219-253, the same code in         *)
(* tasks.py 230-260).                                                      *)
(***************************************************************************)
\* 243: the age, in hours, above which a task file is removed
task_max_age_hours == 24

\* 236-250: the files the loop removes: older than 24 hours, os.remove not
\* raising; the status stored in the file is not read.
FilesToRemove ==
    {t \in 1..Len(task_dir) : /\ task_dir[t].age > task_max_age_hours
                              /\ ~task_dir[t].remove_fails}

\* 229-253: one call of clean_old_tasks
clean_old_tasks ==
    /\ ~cleaned
    /\ removed_files' = FilesToRemove
    /\ removed_count' = Cardinality(FilesToRemove)
    /\ cleaned' = TRUE
    /\ UNCHANGED <<task_dir, dpc, model_error, tts_call, handleVars, pauseVars, voiceVars, managerVars, poolVars, routineVars, taskVars, inputVars, model_status,
                   mainVars, queueVars, workerVars, monitorVars, fileVars,
                   cancel_requested, historyVars>>

(***************************************************************************)
(* The settings (app.models.settings), changed by the user at any time.    *)
(***************************************************************************)
ChangeSettings ==
    /\ \E p \in PauseSettings \ {settings} : settings' = p
    /\ UNCHANGED <<silences, start_settings, dpc, model_error, tts_call,
                   cleanVars, handleVars, managerVars, poolVars, routineVars,
                   voiceVars, taskVars, inputVars, model_status, mainVars,
                   queueVars, workerVars, monitorVars, fileVars,
                   cancel_requested, historyVars>>

(***************************************************************************)
(* Specifications.                                                         *)
(***************************************************************************)
Worker(w) ==
    \/ WorkerCheck(w)
    \/ WorkerGet(w)
    \/ WorkerProcessPause(w)
    \/ WorkerProcessSpeech(w)
    \/ WorkerPut(w)
    \/ WorkerTaskDone(w)

\* One pipeline run.
Next ==
    \/ GenerateStart
    \/ \E w \in Workers : Worker(w)
    \/ MonitorSkip
    \/ MonitorCollect
    \/ MonitorDrain
    \/ Join
    \/ Combine
    \/ Fallback
    \/ Exit

Spec == Init /\ [][Next]_vars

\* generate called through generate_audio, on the shorter texts.
InitFair == InitRun(TextsUpTo(RunLexemes, MaxFairLex)) /\ NoRunner

\* Texts of words and line breaks: up to two Speech segments.
HandleLexemes == {"a", "\n"}

\* generate called through generate_audio, with either settings.
InitSettings ==
    /\ InitRun(TextsUpTo(HandleLexemes, MaxFairLex))
    /\ settings \in PauseSettings
    /\ GeneratorLoaded
    /\ task = "none"
    /\ runner = "none"
    /\ task_status = "none"
    /\ start_pc = "returned"
    /\ SampleVoice
    /\ task_dir = <<>>
    /\ removed_files = {}
    /\ removed_count = 0
    /\ cleaned = FALSE

\* One pipeline run while the settings are being changed.
NextSettings == Next \/ ChangeSettings

SpecSettings == InitSettings /\ [][NextSettings]_vars

\* A worker whose backend call is taken in two steps: the instance is
\* obtained, then used.
WorkerInSteps(w) ==
    \/ WorkerCheck(w)
    \/ WorkerGet(w)
    \/ WorkerProcessPause(w)
    \/ WorkerGetModel(w)
    \/ WorkerSynthesize(w)
    \/ WorkerPut(w)
    \/ WorkerTaskDone(w)

\* One pipeline run, the backend calls of the workers overlapping.
NextHandles ==
    \/ GenerateStart
    \/ \E w \in Workers : WorkerInSteps(w)
    \/ MonitorSkip
    \/ MonitorCollect
    \/ MonitorDrain
    \/ Join
    \/ Combine
    \/ Fallback
    \/ Exit

InitHandles == InitRun(TextsUpTo(HandleLexemes, MaxLex)) /\ NoRunner

SpecHandles == InitHandles /\ [][NextHandles]_vars

\* The steps of the thread that called generate, once the workers are
\* started.
MainThread ==
    \/ MonitorSkip
    \/ MonitorCollect
    \/ MonitorDrain
    \/ Join
    \/ Combine
    \/ Fallback
    \/ Exit

\* One pipeline run under a fair scheduler: once generate is called, the
\* calling thread and every worker thread (threading.Thread, 376-391) take a
\* step they can keep taking; a backend call is one step, so it ends.
SpecFair ==
    /\ InitFair
    /\ [][Next]_vars
    /\ WF_vars(MainThread)
    /\ \A w \in Workers : WF_vars(Worker(w))

\* start_task (86-124) has started the task thread.
InitTask ==
    /\ InitRun(RunTexts)
    /\ task = "started"
    /\ runner = "base"
    /\ task_status = "none"
    /\ SampleVoice
    /\ NoCleanup

\* 201: generate runs inside _run_task
RunTaskGenerate == task = "generate" /\ Next

\* One task of a BaseTaskManager, during which cancel_task may be called.
NextCancel ==
    \/ RunTaskBefore
    \/ RunTaskGenerate
    \/ RunTaskAfterGenerate
    \/ RunTaskSave
    \/ RunTaskComplete
    \/ cancel_task

SpecCancel == InitTask /\ [][NextCancel]_vars

\* The statuses a task file holds (tasks.py 186, 76, 122, 143).
TaskStatuses == {"pending", "processing", "completed", "failed"}

\* The ages of the task files, in hours, around the limit.
TaskAges == {task_max_age_hours, task_max_age_hours + 1}

TaskFiles ==
    [status : TaskStatuses, age : TaskAges, remove_fails : BOOLEAN]

\* clean_old_tasks alone, on every content of TASKS_FOLDER.
InitClean ==
    /\ InitRun({<<>>})
    /\ num_threads = 1
    /\ model_files = FALSE
    /\ task = "none"
    /\ runner = "none"
    /\ task_status = "none"
    /\ SampleVoice
    /\ DefaultSettings
    /\ start_pc = "returned"
    /\ task_dir \in UNION {[1..n -> TaskFiles] : n \in 0..MaxTasks}
    /\ removed_files = {}
    /\ removed_count = 0
    /\ cleaned = FALSE

NextClean == clean_old_tasks

SpecClean == InitClean /\ [][NextClean]_vars

\* The model module alone: no text is generated.
InitModel ==
    /\ InitRun({<<>>})
    /\ num_threads = 1
    /\ NoRunner

NextModel ==
    \/ StartModelDownload
    \/ GetModelStatus
    \/ GetTtsModel
    \/ \E d \in DownloadThreads :
         \/ DownloadBegin(d)
         \/ DownloadClearError(d)
         \/ DownloadEnd(d)
         \/ DownloadFailed(d)

SpecModel == InitModel /\ [][NextModel]_vars

\* The texts of the task runners' specification: at most one lexeme.
TaskTexts == TextsUpTo(RunLexemes, 1)

\* A task of either runner has been started, with a sample voice or an
\* uploaded one.
InitTasks ==
    /\ InitRun(TaskTexts)
    /\ task = "started"
    /\ runner \in {"base", "file"}
    /\ task_status = IF runner = "file" THEN "pending" ELSE "none"
    /\ voice_type \in {"sample", "upload"}
    /\ voice_file \in BOOLEAN
    /\ voice_temp \in BOOLEAN
    /\ remove_fails \in BOOLEAN
    /\ NoCleanup

\* One task of BaseTaskManager or of tasks.py, from the start of its thread.
NextTasks ==
    \/ RunTaskBefore
    \/ RunTaskGenerate
    \/ RunTaskAfterGenerate
    \/ RunTaskSave
    \/ RunTaskComplete
    \/ cancel_task
    \/ FileTaskBegin
    \/ FileTaskStore
    \/ FileTaskFailed

SpecTasks == InitTasks /\ [][NextTasks]_vars

\* start_task of the file-based TaskManager has started the task thread
\* (118) and has not yet called notify_started (121): no task file exists.
InitManager ==
    /\ InitRun(TaskTexts)
    /\ task = "started"
    /\ runner = "base"
    /\ task_status = "none"
    /\ start_pc = "notify"
    /\ voice_type \in {"sample", "upload"}
    /\ voice_file \in BOOLEAN
    /\ voice_temp \in BOOLEAN
    /\ remove_fails \in BOOLEAN
    /\ DefaultSettings
    /\ task_dir = <<>>
    /\ removed_files = {}
    /\ removed_count = 0
    /\ cleaned = FALSE

\* One task of the file-based TaskManager, from the start of its thread,
\* with the caller of start_task and cancel_task.
NextManager ==
    \/ StartTaskNotify
    \/ NextCancel

SpecManager == InitManager /\ [][NextManager]_vars

\* A BaseTaskManager on which no task has been started yet.
InitPool ==
    /\ InitRun({<<>>})
    /\ num_threads = 1
    /\ model_files = FALSE
    /\ NoRunner

\* The callers of start_task and cancel_task, and the task threads.
NextPool ==
    \/ start_task
    \/ CancelCurrentTask
    \/ \E t \in ManagerTasks : TaskCheck(t) \/ TaskStep(t) \/ TaskComplete(t)

SpecPool == InitPool /\ [][NextPool]_vars

\* No routine is stored and OUTPUT_FOLDER is empty.
InitRoutines ==
    /\ InitRun({<<>>})
    /\ num_threads = 1
    /\ model_files = FALSE
    /\ NoRunner

\* Task runs that save a routine, new or existing, and delete_routine calls.
NextRoutines ==
    \/ \E routine_id \in 0..MaxSaves, name \in RoutineNames :
         SaveRoutine(routine_id, name)
    \/ \E routine_id \in 1..MaxSaves : delete_routine(routine_id)

SpecRoutines == InitRoutines /\ [][NextRoutines]_vars

\* _combine_audio_segments alone, on every list of results: the results of
\* segments 0..n-1 in any order of arrival, each a pause (success, no file),
\* a failed Speech segment, or a Speech segment with its file and duration.
PauseTypes == {TypeLineBreak, TypeEllipsisPause, TypeBreak}
SpeechTypes == {TypeNormal, TypeHeading, TypeEllipsisPart}

ResultShapes ==
    [type : PauseTypes, duration : {0}, success : {TRUE}]
    \cup [type : SpeechTypes, duration : {0}, success : {FALSE}]
    \cup [type : SpeechTypes, duration : 1..MaxDuration, success : {TRUE}]

ResultOf(i, shape) ==
    [idx |-> i, type |-> shape.type,
     file |-> IF shape.success /\ shape.type \in SpeechTypes
              THEN SegmentFile([idx |-> i, type |-> shape.type]) ELSE NoFile,
     duration |-> shape.duration, success |-> shape.success]

Orders(n) == {f \in [1..n -> 0..(n - 1)] : \A a, b \in 1..n : a # b => f[a] # f[b]}

ResultLists(m) ==
    UNION {{[k \in 1..n |-> ResultOf(order[k], shapes[k])] :
               order \in Orders(n), shapes \in [1..n -> ResultShapes]} :
           n \in 0..m}

\* generate at line 495, about to call _combine_audio_segments.
InitCombine ==
    /\ text = <<>>
    /\ num_threads = 0
    /\ model_files = FALSE
    /\ pc = "combine"
    /\ segment_files \in ResultLists(MaxResults)
    /\ temp_dir = TRUE
    /\ temp_files = {segment_files[k].file : k \in 1..Len(segment_files)} \ {NoFile}
    /\ NoRunner
    /\ InitRest

NextCombine == Combine

SpecCombine == InitCombine /\ [][NextCombine]_vars

\* The segmenter alone, on the richer texts.
PrepareSegments ==
    /\ pc = "idle"
    /\ segments' = _prepare_segments(text)
    /\ pc' = "segmented"
    /\ UNCHANGED <<appVars, voiceVars, taskVars, inputVars, model_status, pending, outcome, work_queue,
                   unfinished_tasks, result_queue, workerVars, monitorVars,
                   fileVars, cancel_requested, historyVars>>

InitSeg ==
    InitRun(SegTexts(MaxSegLex)) /\ num_threads = 1 /\ model_files = FALSE /\ NoRunner

NextSeg == PrepareSegments

SpecSeg == InitSeg /\ [][NextSeg]_vars

(***************************************************************************)
(* Properties.                                                             *)
(***************************************************************************)
\* The indices of the Speech segments of the run.
SpeechIdx == {segments[k].idx : k \in {n \in 1..Len(segments) : IsSpeech(segments[n])}}

\* No Speech segment of the run succeeded.
NoSpeechSucceeded == SpeechIdx \subseteq failed

\* The results that exist: held by a worker about to put, queued, collected.
Results ==
    {wheld[w] : w \in {v \in Workers : wpc[v] = "put"}}
    \cup {result_queue[i] : i \in 1..Len(result_queue)}
    \cup {segment_files[i] : i \in 1..Len(segment_files)}

\* In how many places segment (or result) number idx is.
CountIn(q, idx) == Cardinality({i \in 1..Len(q) : q[i].idx = idx})
Places(idx) ==
    CountIn(work_queue, idx) + CountIn(result_queue, idx)
    + CountIn(segment_files, idx)
    + Cardinality({w \in Workers : wheld[w].idx = idx})

\* C1: the list handed to _combine_audio_segments holds exactly one result
\* for every submitted segment, Speech or pause: none missing, none twice.
C1_OneResultPerSegment ==
    pc = "combine" =>
        /\ Len(segment_files) = Len(segments)
        /\ \A k \in 1..Len(segments) :
              Cardinality({j \in 1..Len(segment_files) :
                              /\ segment_files[j].idx = segments[k].idx
                              /\ segment_files[j].type = segments[k].type}) = 1

\* Two workers ran, three results were handed over, not in index order.
C1_Witness ==
    /\ pc = "combine"
    /\ Len(segment_files) = 3
    /\ wpc[2] # "unstarted"
    /\ segment_files[1].idx # 0

\* C2: the exported pieces are in ascending segment-index order and are
\* those of the retained results, whatever order the results arrived in.
C2_ExportInIndexOrder ==
    combine_result = "True" =>
        /\ \A i, j \in 1..Len(output_audio) :
              i < j => output_audio[i].idx <= output_audio[j].idx
        /\ {output_audio[i].idx : i \in 1..Len(output_audio)}
              = {r.idx : r \in {x \in Results : x.success}}

\* An export of results that arrived out of index order.
C2_Witness ==
    /\ combine_result = "True"
    /\ \E i, j \in 1..Len(segment_files) :
          /\ i < j
          /\ segment_files[i].idx > segment_files[j].idx
          /\ segment_files[i].success
          /\ segment_files[j].success

\* C3: the segment indices of the list _prepare_segments returns are
\* 0, 1, ..., n-1 in list order.
C3_IndicesAreRange ==
    pc # "idle" => \A k \in 1..Len(segments) : segments[k].idx = k - 1

\* A segmented text with Speech and pause segments of several kinds.
C3_Witness ==
    /\ pc = "segmented"
    /\ Len(segments) >= 4
    /\ \E k \in 1..Len(segments) : segments[k].type = TypeBreak
    /\ \E k \in 1..Len(segments) : segments[k].type = TypeEllipsisPause
    /\ \A k \in 1..Len(segments) : segments[k].idx = k - 1

\* C4: a failed backend call (raised, no file, no handle) is recorded as a
\* result with success false; no segment is lost to an exception, each is
\* in the work queue, with a worker, or has its one result; and a worker
\* exits only when the work queue is empty.
C4_FailureIsRecorded ==
    /\ \A r \in Results : r.idx \in failed => (~r.success /\ r.file = NoFile)
    /\ \A w \in Workers :
          (wpc[w] = "put" /\ wcall[w] \in {"raise", "nofile", "nohandle", "partial"})
              => ~wheld[w].success
    /\ \A k \in 1..Len(segments) :
          pc \in {"monitor", "drain", "join", "combine"} => Places(segments[k].idx) = 1
    /\ \A w \in Workers : wpc[w] = "exited" => work_queue = <<>>
    /\ pc = "combine" => \A k \in 1..Len(segments) :
                            CountIn(segment_files, segments[k].idx) = 1

\* A single worker whose call for one segment failed went on and synthesized
\* a later segment; every segment has its result.
C4_Witness ==
    /\ pc = "combine"
    /\ wpc[2] = "unstarted"
    /\ \E i, j \in 1..Len(segment_files) :
          /\ segment_files[i].idx < segment_files[j].idx
          /\ segment_files[i].idx \in failed
          /\ ~segment_files[i].success
          /\ segment_files[j].success
          /\ segment_files[j].file # NoFile

\* C5 (as claimed): whenever no Speech segment succeeded,
\* _combine_audio_segments returns False without exporting and generate
\* synthesizes the fallback phrase, pause segments or not.
C5_NoSpeechMeansFallback ==
    (combine_result # "none" /\ NoSpeechSucceeded) =>
        /\ combine_result = "False"
        /\ output_file # "fresh" \/ output_audio = FallbackAudio
        /\ pc = "done" => fallback_result # "none"

\* C6: when every Speech segment failed in the pool and the backend can
\* render the fallback phrase, generate returns a filename, it does not raise.
C6_AllFailedStillReturns ==
    (/\ pc = "done"
     /\ SpeechIdx # {}
     /\ NoSpeechSucceeded
     /\ fallback_result \in {"none", "ok"}) => outcome = "returned"

\* Every Speech segment failed and the fallback phrase was rendered.
C6_Witness ==
    /\ pc = "done"
    /\ SpeechIdx # {}
    /\ NoSpeechSucceeded
    /\ fallback_result = "ok"
    /\ outcome = "returned"

\* C7 (as claimed): with the backend not ready for the whole run, a run with
\* a Speech segment ends by raising: no filename, no other output.
C7_NotReadyRaises ==
    (/\ pc = "done"
     /\ ~model_files
     /\ model_status # "downloaded"
     /\ SpeechIdx # {}) => (outcome = "raised" /\ output_file = "nothing")

\* C8 (as claimed): when generate returns a filename, this run wrote the
\* output file.
C8_ReturnedFileWritten ==
    outcome = "returned" => output_file = "fresh"

\* C9: after generate returned or raised, the scratch directory and the
\* segment files in it are gone.
C9_ScratchGone ==
    outcome # "none" => (~temp_dir /\ temp_files = {})

\* generate raised, and segment files were removed with the directory.
C9_Witness ==
    /\ outcome = "raised"
    /\ exit_removed # {}
    /\ ~temp_dir
    /\ temp_files = {}

\* C10 (as claimed): once progress_callback has returned False, no worker
\* claims another segment and the output is not assembled.
C10_CancelStopsClaims ==
    /\ late_claims = {}
    /\ callback_false => combine_result = "none"

\* C11 (as claimed): a task cancelled during the audio generation, after a
\* segment was processed, ends with notify_failed 'Task cancelled', no
\* routine saved, and the scratch directory gone.
C11_CancelledInAudioEnds ==
    (task = "ended" /\ cancel_in_audio) =>
        /\ notified = "cancelled"
        /\ ~routine_saved
        /\ ~temp_dir

\* C12: the percents passed to progress_callback in one run are integers in
\* 0..100 and never decrease.
C12_ProgressMonotone ==
    /\ \A i \in 1..Len(progress) : progress[i] \in 0..100
    /\ \A i, j \in 1..Len(progress) : i < j => progress[i] <= progress[j]

\* Three results, collected out of index order, reported as 33, 66, 100.
C12_Witness ==
    /\ pc = "combine"
    /\ progress = <<33, 66, 100>>
    /\ segment_files[1].idx # 0

\* The worker threads that were started.
StartedWorkers == Cardinality({w \in Workers : wpc[w] # "unstarted"})

CountType(segs, type) == Cardinality({k \in 1..Len(segs) : segs[k].type = type})

\* The non-blank pieces of a list of pieces.
NonBlank(pieces) == SelectSeq(pieces, LAMBDA x : Strip(x) # <<>>)

\* The lines of the non-blank [break]-delimited parts of a text, part by part.
RECURSIVE LinesOfParts(_, _)
LinesOfParts(parts, i) ==
    IF i > Len(parts) THEN <<>>
    ELSE <<Split(parts[i], Newline)>> \o LinesOfParts(parts, i + 1)

PartLines(txt) == LinesOfParts(NonBlank(Split(txt, BreakMarker)), 1)

\* C14 (as claimed): every section-break pause lies between the segments of
\* two non-blank parts; the list neither begins nor ends with one.
C14_BreakPauseBetweenParts ==
    pc = "segmented" =>
        \A k \in 1..Len(segments) :
            segments[k].type = TypeBreak =>
                /\ k > 1
                /\ k < Len(segments)
                /\ segments[k - 1].type # TypeBreak
                /\ segments[k + 1].type # TypeBreak

\* The line-break pauses the claim gives a text: one less than the non-blank
\* lines, in every non-blank part.
RECURSIVE LinePausesBetween(_, _)
LinePausesBetween(partlines, i) ==
    IF i > Len(partlines) THEN 0
    ELSE (Len(NonBlank(partlines[i])) - 1) + LinePausesBetween(partlines, i + 1)

\* C15 (as claimed): in a part, k non-blank lines yield k-1 line-break
\* pauses, and none comes after the part's last non-blank line.
C15_LinePausesBetweenLines ==
    pc = "segmented" =>
        /\ CountType(segments, TypeLineBreak) = LinePausesBetween(PartLines(text), 1)
        /\ \A k \in 1..Len(segments) :
              segments[k].type = TypeLineBreak =>
                  /\ k < Len(segments)
                  /\ segments[k + 1].type \notin {TypeLineBreak, TypeBreak}

\* C16 (as claimed): an ellipsis pause stands only between two Speech pieces
\* of its line; none follows the last Speech piece of a line.
C16_EllipsisPauseBetweenPieces ==
    pc = "segmented" =>
        \A k \in 1..Len(segments) :
            segments[k].type = TypeEllipsisPause =>
                /\ k > 1
                /\ segments[k - 1].type = TypeEllipsisPart
                /\ k < Len(segments)
                /\ segments[k + 1].type = TypeEllipsisPart

\* The heading lines of a text: the non-blank lines of the non-blank parts
\* whose trimmed form starts with '###'.
RECURSIVE HeadingLinesOf(_, _)
HeadingLinesOf(partlines, i) ==
    IF i > Len(partlines) THEN <<>>
    ELSE SelectSeq(partlines[i], LAMBDA l : StartsWith(Strip(l), HeadingMarker))
         \o HeadingLinesOf(partlines, i + 1)

HeadingLines(txt) == HeadingLinesOf(PartLines(txt), 1)

\* The texts of the heading segments, in list order.
RECURSIVE TextsOf(_, _)
TextsOf(segs, k) ==
    IF k > Len(segs) THEN <<>>
    ELSE <<segs[k].text>> \o TextsOf(segs, k + 1)

HeadingSegmentTexts ==
    TextsOf(SelectSeq(segments, LAMBDA x : x.type = TypeHeading), 1)

\* C17 (as claimed): a heading line yields one heading segment whose text is
\* what remains after the '###' prefix.
C17_HeadingTextAfterPrefix ==
    pc = "segmented" =>
        /\ Len(HeadingSegmentTexts) = Len(HeadingLines(text))
        /\ \A k \in 1..Len(HeadingSegmentTexts) :
              HeadingSegmentTexts[k] = HeadingTextAfterPrefix(HeadingLines(text)[k])

\* C17 (amended): a heading line yields one heading segment whose text is
\* the trimmed line, the '###' prefix included.
C17_HeadingTextIsLine ==
    pc = "segmented" =>
        /\ Len(HeadingSegmentTexts) = Len(HeadingLines(text))
        /\ \A k \in 1..Len(HeadingSegmentTexts) :
              /\ HeadingSegmentTexts[k] = Strip(HeadingLines(text)[k])
              /\ StartsWith(HeadingSegmentTexts[k], HeadingMarker)

\* The text '###a', a line break and a second line: a heading segment with
\* the text '###a', a line-break pause and a normal segment.
C17_Witness ==
    /\ pc = "segmented"
    /\ Len(segments) = 3
    /\ segments[1].type = TypeHeading
    /\ segments[1].text = HeadingMarker \o <<"a">>
    /\ segments[2].type = TypeLineBreak
    /\ segments[3].type = TypeNormal

(***************************************************************************)
(* Properties of _combine_audio_segments, on the result lists of           *)
(* SpecCombine.                                                            *)
(***************************************************************************)
\* The kinds of the pieces of the exported audio, in order.
RECURSIVE KindsOf(_)
KindsOf(pieces) ==
    IF pieces = <<>> THEN <<>> ELSE <<pieces[1].piece>> \o KindsOf(Tail(pieces))

\* What the claim has a retained result contribute.
ClaimedKinds(r) ==
    IF r.type \in {TypeNormal, TypeEllipsisPart} THEN <<"audio">>
    ELSE IF r.type = TypeHeading THEN <<"audio", "heading_silence">>
    ELSE IF r.type = TypeLineBreak THEN <<"line_silence">>
    ELSE IF r.type = TypeEllipsisPause THEN <<"ellipsis_silence">>
    ELSE <<"break_silence">>

RECURSIVE ClaimedKindsOf(_)
ClaimedKindsOf(rs) ==
    IF rs = <<>> THEN <<>> ELSE ClaimedKinds(rs[1]) \o ClaimedKindsOf(Tail(rs))

\* The successful results in index order, found without the sort: the
\* indices of a list are pairwise distinct.
RECURSIVE RetainedFrom(_, _)
RetainedFrom(rs, i) ==
    IF i > Len(rs) THEN <<>>
    ELSE LET at == {k \in 1..Len(rs) : rs[k].idx = i - 1 /\ rs[k].success}
         IN  (IF at = {} THEN <<>> ELSE <<rs[CHOOSE k \in at : TRUE]>>)
             \o RetainedFrom(rs, i + 1)

Retained == RetainedFrom(segment_files, 1)

C19_HeadingNotRead ==
    \A i \in 1..Len(output_audio) :
        output_audio[i].piece = "audio" =>
            \A k \in 1..Len(segments) :
                segments[k].idx = output_audio[i].idx
                    => segments[k].type # TypeHeading

\* The sum of the duration values the results carry.
RECURSIVE SumOfDurations(_)
SumOfDurations(rs) ==
    IF rs = <<>> THEN 0 ELSE rs[1].duration + SumOfDurations(Tail(rs))

\* The silence the export adds for a retained result of each kind.
SilenceFor(r) ==
    IF r.type = TypeHeading THEN heading_silence
    ELSE IF r.type = TypeLineBreak THEN line_silence
    ELSE IF r.type = TypeEllipsisPause THEN ellipsis_silence
    ELSE IF r.type = TypeBreak THEN break_silence
    ELSE 0

RECURSIVE SumOfSilences(_)
SumOfSilences(rs) ==
    IF rs = <<>> THEN 0 ELSE SilenceFor(rs[1]) + SumOfSilences(Tail(rs))

PauseSilence(type) ==
    CASE type = TypeLineBreak     -> line_silence
      [] type = TypeEllipsisPause -> ellipsis_silence
      [] type = TypeBreak         -> break_silence

C22_CleanupFailureNotEscalated ==
    (/\ task = "ended"
     /\ outcome = "returned"
     /\ voice_type = "upload" /\ voice_file /\ voice_temp /\ remove_fails
     /\ notified # "cancelled") =>
        /\ routine_saved
        /\ runner = "base" => notified = "completed"
        /\ runner = "file" => task_status = "completed"

\* C23 (as claimed): at most one download thread runs at a time, whatever
\* the interleaving of start_model_download, get_model_status and
\* download_model_task.
C23_OneDownloadAtATime == Cardinality(Alive) <= 1

\* C24 (as claimed): clean_old_tasks removes only the files of completed or
\* failed tasks that are older than 24 hours, and returns the number of
\* files it removed.
C24_OnlyFinishedOldTasksRemoved ==
    cleaned =>
        /\ \A t \in removed_files :
               /\ task_dir[t].status \in {"completed", "failed"}
               /\ task_dir[t].age > task_max_age_hours
        /\ removed_count = Cardinality(removed_files)

\* The indices of the segments waiting in the work queue or held by a worker
\* that has not yet processed them.
AwaitingCall ==
    {work_queue[k].idx : k \in 1..Len(work_queue)} \cup
    {wheld[w].idx : w \in {v \in Workers : wpc[v] = "process"}}

\* C25: a Speech segment whose backend call failed is never queued or
\* processed again, and no piece of the exported audio (audio, replacement
\* silence, heading pause) comes from it.
C25_FailedSpeechLeavesNothing ==
    \A i \in failed :
        /\ i \notin AwaitingCall
        /\ \A k \in 1..Len(output_audio) : output_audio[k].idx # i

\* A heading failed and the audio of another segment was exported.
C25_Witness ==
    /\ \E k \in 1..Len(segments) :
           segments[k].type = TypeHeading /\ segments[k].idx \in failed
    /\ \E k \in 1..Len(output_audio) : output_audio[k].piece = "audio"

\* C26: under fair scheduling and backend calls that end, a generate that
\* has started its workers eventually returns a filename or raises, for
\* every text and every thread budget.
C26_GenerateTerminates ==
    (pc = "monitor") ~> (pc = "done" /\ outcome \in {"returned", "raised"})

\* generate has ended although a worker is blocked in work_queue.get(): it
\* saw a non-empty queue and another worker took the last segment.
C26_Witness ==
    /\ pc = "done"
    /\ Len(segments) >= 2
    /\ \E w \in Workers : wpc[w] = "get" /\ work_queue = <<>>

\* The worker threads _setup_worker_threads has started.
WorkerThreads == {w \in Workers : wpc[w] # "unstarted"}

\* C27: the worker threads have never all exited while a submitted segment
\* is still in the work queue.
C27_NoWorkLeftBehind ==
    (/\ WorkerThreads # {}
     /\ \A w \in WorkerThreads : wpc[w] = "exited") => work_queue = <<>>

\* Two workers have exited during the pool phase.
C27_Witness ==
    /\ pc = "monitor"
    /\ Cardinality(WorkerThreads) >= 2
    /\ \A w \in WorkerThreads : wpc[w] = "exited"

\* C28: two workers never hold the same backend instance: every synthesis
\* call is made on an instance obtained by that worker for that segment.
C28_HandlesNotShared ==
    \A w1, w2 \in Workers :
        (w1 # w2 /\ whandle[w1] # 0) => whandle[w1] # whandle[w2]

\* Two workers are in their backend calls at the same time.
C28_Witness ==
    \E w1, w2 \in Workers :
        /\ w1 # w2
        /\ wpc[w1] = "synth" /\ whandle[w1] # 0
        /\ wpc[w2] = "synth" /\ whandle[w2] # 0

\* The pieces of the exported audio that are silences.
SilencePieces ==
    {k \in 1..Len(output_audio) : output_audio[k].piece \in PauseKinds}

\* C29: every silence of a run has the duration the settings gave when the
\* run loaded them, whatever the settings have become since.
C29_SilencesFromStartOfRun ==
    \A k \in SilencePieces :
        output_audio[k].ms = PausesOf(start_settings)[output_audio[k].piece]

\* A silence was exported and the run has not ended, the settings having
\* been changed since it loaded them.
C29_Witness ==
    /\ pc = "exit"
    /\ SilencePieces # {}
    /\ settings # start_settings

\* The indices of the run's segments without text.
PauseIdx ==
    {segments[k].idx :
        k \in {n \in 1..Len(segments) : Strip(segments[n].text) = <<>>}}

\* C30: the result of a pause segment is a success without a file, and the
\* worker that made it asked for no model and made no backend call, whatever
\* the state of the backend.
C30_PauseNeedsNoBackend ==
    /\ \A r \in Results :
           r.idx \in PauseIdx => r.success /\ r.file = NoFile
    /\ \A w \in Workers :
           (wpc[w] = "put" /\ wheld[w].idx \in PauseIdx) => wcall[w] = "none"

\* A worker holds the result of a pause while the model is not downloaded.
C30_Witness ==
    /\ ~model_files
    /\ \E w \in Workers : wpc[w] = "put" /\ wheld[w].idx \in PauseIdx

\* C31: get_tts_model returns a handle only when get_model_status reports
\* 'downloaded' in the call; with any other status it returns None, and it
\* returns None or a handle, never an exception, with 'downloaded'.
C31_HandleOnlyWhenDownloaded ==
    tts_call # <<>> =>
        /\ tts_call[2] \in {"handle", "none"}
        /\ tts_call[2] = "handle" => tts_call[1] = "downloaded"
        /\ tts_call[1] \in {"not_downloaded", "downloading", "failed"}
               => tts_call[2] = "none"

\* get_tts_model was called after a download failed, and returned None.
C31_Witness == tts_call = <<"failed", "none">>

\* C32: the status is one of the four values and the error is set exactly
\* when the status is 'failed'.
C32_ErrorExactlyWhenFailed ==
    /\ model_status \in {"not_downloaded", "downloading", "downloaded",
                         "failed"}
    /\ model_error # "None" <=> model_status = "failed"

\* C33: when generate has returned or raised, no worker thread it started is
\* blocked in work_queue.get() on the empty work queue.
C33_NoWorkerBlockedAtReturn ==
    pc = "done" =>
        \A w \in WorkerThreads : ~(wpc[w] = "get" /\ work_queue = <<>>)

\* C34: once the task thread has finished and start_task has returned, the
\* status in the task file is 'completed' or 'failed'.
C34_FinishedTaskNotProcessing ==
    (runner = "base" /\ task = "ended" /\ start_pc = "returned")
        => task_status \in {"completed", "failed"}

\* C35: a task gives no terminal notification while it runs and exactly one
\* when it has ended.
C35_OneTerminalNotification ==
    runner = "base" =>
        /\ task = "ended" => Len(terminals) = 1
        /\ task # "ended" => terminals = <<>>

\* The task was cancelled at the third check, the routine being saved.
C35_Witness ==
    /\ runner = "base"
    /\ task = "ended"
    /\ notified = "cancelled"
    /\ routine_saved

\* The percents a task has passed to notify_progress: its own first two
\* (182, 192), those of progress_callback (196) during generate, then its
\* own later ones (204, 217, 230).
TaskPercents ==
    IF Len(own_percents) <= 2
    THEN own_percents \o progress
    ELSE SubSeq(own_percents, 1, 2) \o progress
             \o SubSeq(own_percents, 3, Len(own_percents))

\* C36: the percents a task passes to notify_progress never decrease.
C36_TaskPercentsNonDecreasing ==
    runner = "base" =>
        \A i, j \in 1..Len(TaskPercents) :
            i <= j => TaskPercents[i] <= TaskPercents[j]

\* C37: when a task with an uploaded temporary voice file has given its
\* terminal notification, the file is removed.
C37_TempVoiceFileRemoved ==
    (/\ runner = "base"
     /\ terminals # <<>>
     /\ voice_type = "upload"
     /\ voice_temp) => ~voice_file

\* C38: a task is reported as cancelled only if it was the most recently
\* started task when cancel_task was called, and a cancellation requested
\* for a task stays requested while that task runs.
C38_CancelHitsLatestTask ==
    /\ \A t \in ManagerTasks : treport[t] = "cancelled" => t \in cancel_for
    /\ \A t \in cancel_for : tpc[t] # "ended" => cancel_requested

\* C39: no two stored routines refer to the same output file, and the
\* output file of every stored routine is in the output folder.
C39_NoSharedOutputFile ==
    /\ \A r1, r2 \in routines :
           r1.id # r2.id => r1.output_filename # r2.output_filename
    /\ \A r \in routines : r.output_filename \in output_folder

====
